---- MODULE Spec2Model ----
(***************************************************************************)
(* SimpleFactory (src/SimpleFactory.py): a discrete-event simulation of a  *)
(* production line.  Parts visit the machines in order; every machine has  *)
(* a station Resource and a rail with a one-slot Resource; machines and    *)
(* rails report over a SensorTCPProxy connection each.                     *)
(*                                                                         *)
(* The event loop is the one the program runs on: a queue of events kept   *)
(* in (time, priority, insertion) order, one event processed per step, the *)
(* callbacks of the processed event resuming the generator that waits for  *)
(* it.  One action of the model is one processed event, with everything    *)
(* the resumed generator does up to its next yield.  Pacing against the    *)
(* wall clock (RUN_RT) changes when an event is processed, not which one   *)
(* is next, and is left out.                                               *)
(*                                                                         *)
(* What the network does is the environment's choice: sendall succeeds,    *)
(* raises socket.error or raises socket.timeout, and a connect succeeds or *)
(* fails; the sends of a run that fail are at most fault_budget.           *)
(***************************************************************************)
EXTENDS Integers, Sequences, FiniteSets, TLC

\* ---------------------------------------------------------------- bounds
MaxParts    == 3
MaxMachines == 2
MaxStations == 2
MaxFaults   == 1
MaxTelFaults == 2    \* failing sends in a run of the one-machine factory

\* ------------------------------------------------------ program constants
T_INTER       == 2
WORKTIME      == 5
SIM_TIME      == 432000
RailDelayMin  == 1
RailDelayMax  == 3
PoolSize      == 10
DefaultStoreSz == 10000

RailCapacityTwo == 1 + 1

\* simpy.Resource(env, 1): one path out from a machine.
RailCapacity  == 1

\* Priorities of scheduled events: the Initialize event of a new process is
\* urgent, every other event is normal.
URGENT == "urgent"
NORMAL == "normal"
Rank(prio) == IF prio = URGENT THEN 0 ELSE 1

Parts    == 0 .. MaxParts - 1
Machines == 0 .. MaxMachines - 1
NoOne    == 0 - 1

\* One telemetry client per machine and one per rail.
Clients == {<<k, m>> : k \in {"mach", "rail"}, m \in Machines}

VARIABLES
  num_parts, num_machines, num_stations, worktime, t_inter, output_store_sz,
  fault_budget,  \* how many sends the network is let to fail in this run
  rail_delays,   \* machine -> transit delay, drawn in setup
  now,           \* env.now
  queue,         \* the environment's event queue, in processing order
  station,       \* machine -> [users, put_queue] of mach.station
  rail,          \* machine -> [users, put_queue] of mach.rail.rail
  pc,            \* part -> where the Part generator is suspended
  at,            \* part -> index of the machine the part is at
  part_id,       \* setup's counter of parts created
  level,         \* output_store.level
  store_queue,   \* puts of output_store that wait for room
  seqnum,        \* client -> SensorTCPProxy.seqnum
  conn,          \* client -> number of connect() calls made: the socket instance
  wire,          \* client -> last record written: [conn, seq]
  pool,          \* the address list al.pop_addr() draws from
  bind_addr,     \* client -> address bound
  written,       \* client -> number of records the collector got from it
  log,           \* part -> the records sfutils.loginfo wrote about it
  exited,        \* sys.exit(1) was called
  faults,        \* failing sends so far
  ticket,        \* number of resource requests made so far
  req_ticket,    \* part -> ticket of its latest resource request
  last           \* what the last step did: [op, part, mach, out]

params == <<num_parts, num_machines, num_stations, worktime, t_inter, output_store_sz,
            fault_budget>>
sim    == <<now, queue, station, rail, pc, at, part_id, level, store_queue,
            rail_delays, ticket, req_ticket>>
tel    == <<seqnum, conn, wire, pool, bind_addr, written>>
vars   == <<params, sim, tel, exited, faults, last, log>>

\* ------------------------------------------------------------ event queue
Event(t, prio, kind, who, m) ==
  [t |-> t, prio |-> prio, kind |-> kind, who |-> who, m |-> m]

Before(e, f) == e.t < f.t \/ (e.t = f.t /\ Rank(e.prio) <= Rank(f.prio))

\* env.schedule: the new event goes behind every event that is not later
\* than it (equal time and priority: insertion order).
Schedule(q, e) ==
  LET k == Cardinality({i \in 1 .. Len(q) : Before(q[i], e)})
  IN  SubSeq(q, 1, k) \o <<e>> \o SubSeq(q, k + 1, Len(q))

\* The events of es scheduled one after the other; q1 and es1 name the queue
\* after the first one and the events still to schedule.
RECURSIVE ScheduleAll(_, _)
ScheduleAll(q, es) ==
  IF es = <<>> THEN q
  ELSE CHOOSE r \in {ScheduleAll(q1, es1) : q1 \in {Schedule(q, Head(es))},
                                            es1 \in {Tail(es)}} : TRUE

Running == ~exited /\ queue # <<>> /\ Head(queue).t < SIM_TIME

\* -------------------------------------------------------------- Resource
\* simpy.Resource as the program uses it: request() appends to put_queue and
\* grants from the head while a slot is free; leaving the with block removes
\* the holder from users and schedules a Release event, whose processing
\* grants again.
NoResource == [users |-> <<>>, put_queue |-> <<>>]

Holds(R, p)   == \E i \in 1 .. Len(R.users) : R.users[i] = p
Waits(R, p)   == \E i \in 1 .. Len(R.put_queue) : R.put_queue[i] = p
Without(s, p) == SelectSeq(s, LAMBDA x : x # p)

GranteeNoCapacity(R, cap) ==
  IF R.put_queue # <<>> THEN Head(R.put_queue) ELSE NoOne

GranteeLast(R, cap) ==
  IF R.put_queue # <<>> /\ Len(R.users) < cap
    THEN R.put_queue[Len(R.put_queue)] ELSE NoOne

\* The requester a free slot goes to: the head of put_queue, if a slot is free.
Grantee(R, cap) ==
  IF R.put_queue # <<>> /\ Len(R.users) < cap THEN Head(R.put_queue) ELSE NoOne

TriggerPut(R, cap) ==
  LET g == Grantee(R, cap)
  IN  IF g = NoOne THEN R
      ELSE [users |-> Append(R.users, g), put_queue |-> Without(R.put_queue, g)]

GrantEvents(R, cap, t, kind) ==
  LET g == Grantee(R, cap)
  IN  IF g = NoOne THEN <<>> ELSE <<Event(t, NORMAL, kind, g, NoOne)>>

Requested(R, p) == [R EXCEPT !.put_queue = Append(@, p)]

ReleasedKept(R, p) == R

\* Leaving the with block: the request is released, or withdrawn if it still
\* waits.
Released(R, p)  == [R EXCEPT !.users = Without(@, p), !.put_queue = Without(@, p)]

\* --------------------------------------------------------- SensorTCPProxy
Outcomes == {"ok", "socket.error", "socket.timeout"}

\* The except clauses of send, in the order they are written.
ExceptClauses == <<"socket.error", "socket.timeout">>

\* socket.timeout is a subclass of socket.error (OSError).
IsInstance(exc, cls) ==
  exc = cls \/ (exc = "socket.timeout" /\ cls = "socket.error")

\* The clause that handles exc: the first one whose class exc is an instance of.
Handler(exc) ==
  CHOOSE i \in 1 .. Len(ExceptClauses) :
    /\ IsInstance(exc, ExceptClauses[i])
    /\ \A j \in 1 .. i - 1 : ~IsInstance(exc, ExceptClauses[j])

\* send closes the socket and calls connect() in its first clause only.
Reconnects(out) == out # "ok" /\ Handler(out) = 1

SeqnumReset(s) == 0

\* connect() leaves self.seqnum as it is.
SeqnumAfterConnect(s) == s

ConnectAbsorbs(cok) == FALSE

\* connect(): a socket.error while binding or connecting ends in sys.exit(1).
ConnectExits(cok) == ~cok

SendRaises(out, cok) == out # "ok"

\* send returns to its caller unless connect() has ended the process: the
\* exceptions of sendall are caught in send.
SendExits(out, cok) == Reconnects(out) /\ ConnectExits(cok)

NextSeqStuck(s) == s

\* self.seqnum += 1, before the record is formatted.
NextSeq(s) == s + 1

WrittenWithResend(w, out) == w + 1

\* sendall writes the record once; a record whose write failed is dropped:
\* nothing is sent after connect().
WrittenAfterSend(w, out) == IF out = "ok" THEN w + 1 ELSE w

PoolPopOnReconnect(l) == Tail(l)

\* connect() binds self.bind_addr again: the address list is not touched.
PoolAfterReconnect(l) == l

\* SensorTCPProxy.send on client c; out is what sendall does, cok whether
\* the connect() of the reconnect succeeds.
Send(c, out, cok) ==
  /\ out # "ok" => faults < fault_budget
  /\ ~Reconnects(out) => cok
  /\ faults' = IF out = "ok" THEN faults ELSE faults + 1
  /\ seqnum' = [seqnum EXCEPT ![c] =
                  IF Reconnects(out) THEN SeqnumAfterConnect(NextSeq(@))
                  ELSE NextSeq(@)]
  /\ wire' = IF out = "ok"
               THEN [wire EXCEPT ![c] = [conn |-> conn[c], seq |-> NextSeq(seqnum[c])]]
               ELSE wire
  /\ written' = [written EXCEPT ![c] = WrittenAfterSend(@, out)]
  /\ conn' = IF Reconnects(out) THEN [conn EXCEPT ![c] = @ + 1] ELSE conn
  /\ exited' = (Reconnects(out) /\ ConnectExits(cok))
  /\ pool' = IF Reconnects(out) THEN PoolAfterReconnect(pool) ELSE pool
  /\ UNCHANGED bind_addr

Did(op, who, m, out, cok) ==
  [op |-> op, who |-> who, m |-> m, out |-> out, cok |-> cok]

\* What is left of a step in which sys.exit(1) was called: the event was
\* popped and the clock set before the callback ran.  SystemExit ends the
\* run; no event is processed after it here.
Aborted(e) ==
  /\ now' = e.t
  /\ queue' = Tail(queue)
  /\ UNCHANGED <<station, rail, pc, at, part_id, level, store_queue,
                 rail_delays, ticket, req_ticket>>

\* ------------------------------------------------------------- local pool
\* k calls of al.pop_addr(): each takes one address off the list.
PopAddrs(l, k) == [taken |-> SubSeq(l, 1, k), rest |-> SubSeq(l, k + 1, Len(l))]

\* The clients in the order setup constructs them: for every machine its
\* rail's client, then its own.
ClientOrder(n) ==
  [i \in 1 .. 2 * n |->
     IF i % 2 = 1 THEN <<"rail", (i - 1) \div 2>> ELSE <<"mach", (i - 2) \div 2>>]

\* ------------------------------------------------------------------- Init
NoRecords ==
  [entered |-> 0, transit |-> 0, stored |-> 0, work_start |-> <<>>, work_end |-> <<>>]

\* The state when env.run is called: nothing constructed yet, the setup
\* process waiting to be started.
Constructed ==
  /\ rail_delays = [m \in Machines |-> RailDelayMin]
  /\ now = 0
  /\ queue = <<Event(0, URGENT, "init_setup", NoOne, NoOne)>>
  /\ station = [m \in Machines |-> NoResource]
  /\ rail = [m \in Machines |-> NoResource]
  /\ pc = [p \in Parts |-> "NONE"]
  /\ at = [p \in Parts |-> 0]
  /\ part_id = 0
  /\ level = 0
  /\ store_queue = 0
  /\ seqnum = [c \in Clients |-> 0]
  /\ conn = [c \in Clients |-> 0]
  /\ wire = [c \in Clients |-> [conn |-> 0, seq |-> 0]]
  /\ pool = [i \in 1 .. PoolSize |-> i]
  /\ bind_addr = [c \in Clients |-> 0]
  /\ exited = FALSE
  /\ faults = 0
  /\ ticket = 0
  /\ req_ticket = [p \in Parts |-> 0]
  /\ last = Did("run", NoOne, NoOne, "none", TRUE)
  /\ written = [c \in Clients |-> 0]
  /\ log = [p \in Parts |-> NoRecords]

Init ==
  /\ num_parts \in 1 .. MaxParts
  /\ num_machines \in 1 .. MaxMachines
  /\ num_stations \in 1 .. MaxStations
  /\ output_store_sz \in {1, DefaultStoreSz}
  /\ t_inter = T_INTER
  /\ worktime = WORKTIME
  /\ fault_budget = MaxFaults
  /\ Constructed

\* ------------------------------------------------------- Factory.setup
\* The setup generator up to its first yield: the machines with their rails
\* and clients, the output store, the first timeout.  k clients connect; the
\* next one's connect fails, if there is a next one.
SetupInit ==
  /\ Running /\ Head(queue).kind = "init_setup"
  /\ LET e == Head(queue)
         n == 2 * num_machines
         order == ClientOrder(num_machines)
     IN  \E k \in 0 .. n :
         \E d \in [Machines -> RailDelayMin .. RailDelayMax] :
           /\ \A m \in Machines : m >= num_machines => d[m] = RailDelayMin
           /\ k < n => \A m \in Machines : d[m] = RailDelayMin
           /\ LET made == IF k < n THEN k + 1 ELSE n
                  idx(c) == CHOOSE i \in 1 .. n : order[i] = c
                  isMade(c) == \E i \in 1 .. made : order[i] = c
                  popped == PopAddrs(pool, made)
              IN  /\ pool' = popped.rest
                  /\ bind_addr' = [c \in Clients |->
                                     IF isMade(c) THEN popped.taken[idx(c)] ELSE 0]
                  /\ conn' = [c \in Clients |-> IF isMade(c) THEN 1 ELSE 0]
           /\ exited' = ConnectExits(k = n)
           /\ rail_delays' = d
           /\ now' = e.t
           /\ queue' = IF k < n THEN Tail(queue)
                       ELSE Schedule(Tail(queue),
                              Event(e.t + t_inter, NORMAL, "timeout_setup", NoOne, NoOne))
           /\ last' = Did("SetupInit", NoOne, NoOne, "none", k = n)
  /\ UNCHANGED <<params, station, rail, pc, at, part_id, level, store_queue,
                 ticket, req_ticket, seqnum, wire, faults, written, log>>

MorePartsOffByOne(id, n) == id <= n

\* The test of the setup loop: if part_id < self.num_parts.
MoreParts(id, n) == id < n

\* The setup loop after its timeout: one more part, or the end of setup.
SetupWake ==
  /\ Running /\ Head(queue).kind = "timeout_setup"
  /\ LET e == Head(queue)
     IN  /\ now' = e.t
         /\ IF MoreParts(part_id, num_parts)
              THEN /\ queue' = ScheduleAll(Tail(queue),
                        << Event(e.t, URGENT, "init_part", part_id, NoOne),
                           Event(e.t + t_inter, NORMAL, "timeout_setup", NoOne, NoOne) >>)
                   /\ pc' = [pc EXCEPT ![part_id] = "CREATED"]
                   /\ part_id' = part_id + 1
                   /\ last' = Did("SetupWake", part_id, NoOne, "none", TRUE)
              ELSE /\ queue' = Schedule(Tail(queue),
                                 Event(e.t, NORMAL, "proc_setup", NoOne, NoOne))
                   /\ UNCHANGED <<pc, part_id>>
                   /\ last' = Did("SetupReturn", NoOne, NoOne, "none", TRUE)
  /\ UNCHANGED <<params, station, rail, at, level, store_queue, rail_delays,
                 ticket, req_ticket, tel, exited, faults, log>>

\* ------------------------------------------------------------------ Part
\* mach.station.request() by part p at machine m, at time t: the new
\* station state and the events it schedules.
StationRequest(st, m, p, t) ==
  LET R == Requested(st[m], p)
  IN  [res |-> [st EXCEPT ![m] = TriggerPut(R, num_stations)],
       evs |-> GrantEvents(R, num_stations, t, "req_station")]

\* The Part generator starts: the request for the first machine's station.
PartInit ==
  /\ Running /\ Head(queue).kind = "init_part"
  /\ LET e == Head(queue)
         p == e.who
         rq == StationRequest(station, 0, p, e.t)
     IN  /\ now' = e.t
         /\ station' = rq.res
         /\ queue' = ScheduleAll(Tail(queue), rq.evs)
         /\ pc' = [pc EXCEPT ![p] = "WAITING_FOR_STATION"]
         /\ at' = [at EXCEPT ![p] = 0]
         /\ ticket' = ticket + 1
         /\ req_ticket' = [req_ticket EXCEPT ![p] = ticket + 1]
         /\ last' = Did("PartInit", p, 0, "none", TRUE)
  /\ UNCHANGED <<params, rail, part_id, level, store_queue, rail_delays,
                 tel, exited, faults, log>>

\* The station request is granted: part_enters, then the work process starts.
StationGranted ==
  /\ Running /\ Head(queue).kind = "req_station"
  /\ LET e == Head(queue)
         p == e.who
         m == at[p]
     IN  \E out \in Outcomes, cok \in BOOLEAN :
           /\ Send(<<"mach", m>>, out, cok)
           /\ last' = Did("part_enters", p, m, out, cok)
           /\ log' = [log EXCEPT ![p].entered = @ + 1]
           /\ IF SendExits(out, cok) THEN Aborted(e)
              ELSE /\ now' = e.t
                   /\ queue' = Schedule(Tail(queue),
                                 Event(e.t, URGENT, "init_work", p, m))
                   /\ pc' = [pc EXCEPT ![p] = "WORKING"]
                   /\ UNCHANGED <<station, rail, at, part_id, level, store_queue,
                                  rail_delays, ticket, req_ticket>>
  /\ UNCHANGED params

\* Machine.work up to its yield: the record, then the work timeout.
WorkInit ==
  /\ Running /\ Head(queue).kind = "init_work"
  /\ LET e == Head(queue)
         p == e.who
         m == e.m
     IN  \E out \in Outcomes, cok \in BOOLEAN :
           /\ Send(<<"mach", m>>, out, cok)
           /\ last' = Did("work", p, m, out, cok)
           /\ IF SendExits(out, cok) THEN Aborted(e) /\ UNCHANGED log
              ELSE /\ now' = e.t
                   /\ log' = [log EXCEPT ![p].work_start = Append(@, e.t)]
                   /\ queue' = Schedule(Tail(queue),
                                 Event(e.t + worktime, NORMAL, "timeout_work", p, m))
                   /\ UNCHANGED <<station, rail, pc, at, part_id, level, store_queue,
                                  rail_delays, ticket, req_ticket>>
  /\ UNCHANGED params

\* The work timeout: Machine.work returns, its process event is scheduled.
WorkTimeout ==
  /\ Running /\ Head(queue).kind = "timeout_work"
  /\ LET e == Head(queue)
     IN  /\ now' = e.t
         /\ queue' = Schedule(Tail(queue), Event(e.t, NORMAL, "proc_work", e.who, e.m))
         /\ last' = Did("work_done", e.who, e.m, "none", TRUE)
         /\ log' = [log EXCEPT ![e.who].work_end = Append(@, e.t)]
  /\ UNCHANGED <<params, station, rail, pc, at, part_id, level, store_queue,
                 rail_delays, ticket, req_ticket, tel, exited, faults>>

\* mach.rail.rail.request() by part p at machine m.
RailRequest(rl, m, p, t) ==
  LET R == Requested(rl[m], p)
  IN  [res |-> [rl EXCEPT ![m] = TriggerPut(R, RailCapacity)],
       evs |-> GrantEvents(R, RailCapacity, t, "req_rail")]

\* The part resumes after work: "part exits machine", then the request for
\* the rail, inside the with block of the station.
WorkDone ==
  /\ Running /\ Head(queue).kind = "proc_work"
  /\ LET e == Head(queue)
         p == e.who
         m == at[p]
         rq == RailRequest(rail, m, p, e.t)
     IN  /\ now' = e.t
         /\ rail' = rq.res
         /\ queue' = ScheduleAll(Tail(queue), rq.evs)
         /\ pc' = [pc EXCEPT ![p] = "WAITING_FOR_RAIL"]
         /\ ticket' = ticket + 1
         /\ req_ticket' = [req_ticket EXCEPT ![p] = ticket + 1]
         /\ last' = Did("exits_machine", p, m, "none", TRUE)
  /\ UNCHANGED <<params, station, at, part_id, level, store_queue, rail_delays,
                 tel, exited, faults, log>>

\* The rail request is granted: "part in transit", the travel process starts.
RailGranted ==
  /\ Running /\ Head(queue).kind = "req_rail"
  /\ LET e == Head(queue)
         p == e.who
     IN  /\ now' = e.t
         /\ queue' = Schedule(Tail(queue), Event(e.t, URGENT, "init_travel", p, at[p]))
         /\ pc' = [pc EXCEPT ![p] = "TRAVELING"]
         /\ last' = Did("rail_granted", p, at[p], "none", TRUE)
         /\ log' = [log EXCEPT ![p].transit = @ + 1]
  /\ UNCHANGED <<params, station, rail, at, part_id, level, store_queue,
                 rail_delays, ticket, req_ticket, tel, exited, faults>>

\* Rail.travel up to its yield: the record, then the transit timeout.
TravelInit ==
  /\ Running /\ Head(queue).kind = "init_travel"
  /\ LET e == Head(queue)
         p == e.who
         m == e.m
     IN  \E out \in Outcomes, cok \in BOOLEAN :
           /\ Send(<<"rail", m>>, out, cok)
           /\ last' = Did("travel", p, m, out, cok)
           /\ IF SendExits(out, cok) THEN Aborted(e)
              ELSE /\ now' = e.t
                   /\ queue' = Schedule(Tail(queue),
                                 Event(e.t + rail_delays[m], NORMAL, "timeout_travel", p, m))
                   /\ UNCHANGED <<station, rail, pc, at, part_id, level, store_queue,
                                  rail_delays, ticket, req_ticket>>
  /\ UNCHANGED <<params, log>>

\* The transit timeout: Rail.travel returns, its process event is scheduled.
TravelTimeout ==
  /\ Running /\ Head(queue).kind = "timeout_travel"
  /\ LET e == Head(queue)
     IN  /\ now' = e.t
         /\ queue' = Schedule(Tail(queue), Event(e.t, NORMAL, "proc_travel", e.who, e.m))
         /\ last' = Did("travel_done", e.who, e.m, "none", TRUE)
  /\ UNCHANGED <<params, station, rail, pc, at, part_id, level, store_queue,
                 rail_delays, ticket, req_ticket, tel, exited, faults, log>>

\* ----------------------------------------------------------- output store
ContainerPutUnchecked(lvl, cap) == lvl + 1

NextMachineSkip(m) == m + 2

\* for mach in machines: the machine after machine m.
NextMachine(m) == m + 1

\* output_store.put(1): the level rises if there is room; if not, the put
\* stays in the container's queue and the level is left as it is.
ContainerPut(lvl, cap) == IF cap - lvl >= 1 THEN lvl + 1 ELSE lvl

\* The part resumes after travel: it leaves both with blocks (rail, then
\* station), and goes on to the next machine's station or, after the last
\* machine, to the output store and its end.
TravelDone ==
  /\ Running /\ Head(queue).kind = "proc_travel"
  /\ LET e == Head(queue)
         p == e.who
         m == at[p]
         freed == [station EXCEPT ![m] = Released(@, p)]
         frees == << Event(e.t, NORMAL, "release_rail", NoOne, m),
                     Event(e.t, NORMAL, "release_station", NoOne, m) >>
     IN  /\ now' = e.t
         /\ rail' = [rail EXCEPT ![m] = Released(@, p)]
         /\ IF NextMachine(m) < num_machines
              THEN LET rq == StationRequest(freed, NextMachine(m), p, e.t)
                   IN  /\ station' = rq.res
                       /\ queue' = ScheduleAll(Tail(queue), frees \o rq.evs)
                       /\ pc' = [pc EXCEPT ![p] = "WAITING_FOR_STATION"]
                       /\ at' = [at EXCEPT ![p] = NextMachine(m)]
                       /\ ticket' = ticket + 1
                       /\ req_ticket' = [req_ticket EXCEPT ![p] = ticket + 1]
                       /\ UNCHANGED <<level, store_queue, log>>
                       /\ last' = Did("next_machine", p, m, "none", TRUE)
              ELSE LET lvl == ContainerPut(level, output_store_sz)
                   IN  /\ station' = freed
                       /\ level' = lvl
                       /\ store_queue' = IF lvl = level THEN store_queue + 1
                                         ELSE store_queue
                       /\ queue' = ScheduleAll(Tail(queue),
                            frees
                            \o (IF lvl = level THEN <<>>
                                ELSE <<Event(e.t, NORMAL, "put_store", p, NoOne)>>)
                            \o <<Event(e.t, NORMAL, "proc_part", p, NoOne)>>)
                       /\ pc' = [pc EXCEPT ![p] = "STORED"]
                       /\ UNCHANGED <<at, ticket, req_ticket>>
                       /\ log' = [log EXCEPT ![p].stored = @ + 1]
                       /\ last' = Did("stored", p, m, "none", TRUE)
  /\ UNCHANGED <<params, part_id, rail_delays, tel, exited, faults>>

\* A station's Release event is processed: the freed slot is granted.
StationReleased ==
  /\ Running /\ Head(queue).kind = "release_station"
  /\ LET e == Head(queue)
         R == station[e.m]
     IN  /\ now' = e.t
         /\ station' = [station EXCEPT ![e.m] = TriggerPut(R, num_stations)]
         /\ queue' = ScheduleAll(Tail(queue),
                       GrantEvents(R, num_stations, e.t, "req_station"))
         /\ last' = Did("release_station", Grantee(R, num_stations), e.m, "none", TRUE)
  /\ UNCHANGED <<params, rail, pc, at, part_id, level, store_queue, rail_delays,
                 ticket, req_ticket, tel, exited, faults, log>>

\* A rail's Release event is processed: the freed slot is granted.
RailReleased ==
  /\ Running /\ Head(queue).kind = "release_rail"
  /\ LET e == Head(queue)
         R == rail[e.m]
     IN  /\ now' = e.t
         /\ rail' = [rail EXCEPT ![e.m] = TriggerPut(R, RailCapacity)]
         /\ queue' = ScheduleAll(Tail(queue),
                       GrantEvents(R, RailCapacity, e.t, "req_rail"))
         /\ last' = Did("release_rail", Grantee(R, RailCapacity), e.m, "none", TRUE)
  /\ UNCHANGED <<params, station, pc, at, part_id, level, store_queue, rail_delays,
                 ticket, req_ticket, tel, exited, faults, log>>

\* Events nothing waits for: a succeeded put of the store, the end of a
\* Part process, the end of setup.
Ended ==
  /\ Running /\ Head(queue).kind \in {"put_store", "proc_part", "proc_setup"}
  /\ LET e == Head(queue)
     IN  /\ now' = e.t
         /\ queue' = Tail(queue)
         /\ last' = Did(e.kind, e.who, NoOne, "none", TRUE)
  /\ UNCHANGED <<params, station, rail, pc, at, part_id, level, store_queue,
                 rail_delays, ticket, req_ticket, tel, exited, faults, log>>

Next ==
  \/ SetupInit
  \/ SetupWake
  \/ PartInit
  \/ StationGranted
  \/ WorkInit
  \/ WorkTimeout
  \/ WorkDone
  \/ RailGranted
  \/ TravelInit
  \/ TravelTimeout
  \/ TravelDone
  \/ StationReleased
  \/ RailReleased
  \/ Ended

Spec == Init /\ [][Next]_vars

\* Every line within the bounds with the store of the program's size, on a
\* network that fails up to MaxFaults sends.
LineInit ==
  /\ num_parts \in 1 .. MaxParts
  /\ num_machines \in 1 .. MaxMachines
  /\ num_stations \in 1 .. MaxStations
  /\ output_store_sz = DefaultStoreSz
  /\ t_inter = T_INTER
  /\ worktime = WORKTIME
  /\ fault_budget = MaxFaults
  /\ Constructed

SpecLine == LineInit /\ [][Next]_vars

\* ================================================================ claims
StationHolders(m) == {p \in Parts : Holds(station[m], p)}
RailHolders(m)    == {p \in Parts : Holds(rail[m], p)}

\* Part p has emitted "part in transit" in Rail.travel at machine m and its
\* transit delay has not ended.
InTransit(p, m) ==
  \E i \in 1 .. Len(queue) :
    queue[i].kind = "timeout_travel" /\ queue[i].who = p /\ queue[i].m = m

StoredParts == {p \in Parts : pc[p] = "STORED"}

\* C1: in every reachable state the number of parts holding a slot of a
\* machine's station resource is at most num_stations, and the number
\* holding a rail's resource is at most 1.
C1_HeldWithinCapacity ==
  \A m \in Machines :
    /\ Len(station[m].users) <= num_stations
    /\ Cardinality(StationHolders(m)) <= num_stations
    /\ Len(rail[m].users) <= RailCapacity
    /\ Cardinality(RailHolders(m)) <= RailCapacity

\* A station is full with a part waiting for it while the rail is taken.
C1_Witness ==
  \E m \in Machines :
    /\ Cardinality(StationHolders(m)) = num_stations
    /\ station[m].put_queue # <<>>
    /\ Cardinality(RailHolders(m)) = RailCapacity

\* C2: a part that waits for the rail of machine m, or travels on it, holds
\* no station slot of m.
C2_StationFreedAfterWork ==
  \A p \in Parts :
    pc[p] \in {"WAITING_FOR_RAIL", "TRAVELING"} => ~Holds(station[at[p]], p)

\* A part becomes a holder of resource R in this step.
Acquires(R, Rn, p) == ~Holds(R, p) /\ Holds(Rn, p)

\* C3: a slot is granted only when fewer than capacity parts hold the
\* resource, and it goes to the part that requested first: every part still
\* waiting on the resource after the grant requested later than the part
\* that was granted.
C3_GrantInRequestOrder ==
  [][\A m \in Machines : \A p \in Parts :
       /\ Acquires(station[m], station'[m], p) =>
            /\ Len(station[m].users) < num_stations
            /\ \A q \in Parts : Waits(station'[m], q) => req_ticket'[p] < req_ticket'[q]
       /\ Acquires(rail[m], rail'[m], p) =>
            /\ Len(rail[m].users) < RailCapacity
            /\ \A q \in Parts : Waits(rail'[m], q) => req_ticket'[p] < req_ticket'[q]
    ]_vars

\* A released station slot has just gone to a part that waited for it, with
\* another part still waiting behind it.
C3_Witness ==
  /\ last.op = "release_station"
  /\ last.who # NoOne
  /\ Holds(station[last.m], last.who)
  /\ station[last.m].put_queue # <<>>

\* C4: at most one part is in transit on a rail at any time.
C4_OneInTransit ==
  \A m \in Machines : Cardinality({p \in Parts : InTransit(p, m)}) <= 1

\* A part is in transit on a rail another part waits for, at a machine with
\* more than one station.
C4_Witness ==
  \E m \in Machines : \E p \in Parts :
    /\ InTransit(p, m)
    /\ rail[m].put_queue # <<>>
    /\ num_stations > 1

\* C5: the level of the output store equals the number of parts that have
\* reached STORED.
C5_LevelCountsStored == level = Cardinality(StoredParts)

\* C6: a part that reaches STORED while the store is full ends the run with
\* a fatal error.
C6_OverflowIsFatal ==
  [][\A p \in Parts :
       (pc[p] # "STORED" /\ pc'[p] = "STORED" /\ level = output_store_sz) => exited'
    ]_vars

\* C7: 0 <= level <= capacity in every state, and the level never goes down.
C7_LevelWithinCapacity ==
  [][/\ 0 <= level /\ level <= output_store_sz
     /\ 0 <= level' /\ level' <= output_store_sz
     /\ level <= level'
    ]_vars

\* A part has reached STORED with the store already full.
C7_Witness ==
  /\ last.op = "stored"
  /\ store_queue > 0
  /\ level = output_store_sz
  /\ Cardinality(StoredParts) > output_store_sz

\* The step was a SensorTCPProxy.send, and the client it was made on.
IsSend(l) == l.op \in {"part_enters", "work", "travel"}
SentOn(l) == IF l.op = "travel" THEN <<"rail", l.m>> ELSE <<"mach", l.m>>

\* This step is a send on client c in which sendall raised exc and the
\* reconnect succeeded.
ReconnectedBy(c, exc) ==
  /\ seqnum'[c] # seqnum[c] \/ conn'[c] # conn[c]
  /\ IsSend(last') /\ SentOn(last') = c
  /\ last'.out = exc /\ last'.cok

\* This step writes the first record of a connection made by a reconnect.
FirstOnNewConnection(c) ==
  wire'[c] # wire[c] /\ wire'[c].conn # wire[c].conn /\ wire'[c].conn > 1

C9_TimeoutOnlyLogged ==
  [][\A c \in Clients :
       ( /\ seqnum'[c] # seqnum[c]
         /\ IsSend(last') /\ SentOn(last') = c
         /\ last'.out = "socket.timeout" )
       => conn'[c] = conn[c] /\ ~exited'
    ]_vars

\* The part whose step it was has its next event scheduled.
GoesOn(p) == \E i \in 1 .. Len(queue) : queue[i].who = p

TelInit ==
  /\ num_parts \in 1 .. MaxParts
  /\ num_machines = 1
  /\ num_stations \in 1 .. MaxStations
  /\ output_store_sz = DefaultStoreSz
  /\ t_inter = T_INTER
  /\ worktime = WORKTIME
  /\ fault_budget = MaxTelFaults
  /\ Constructed

SpecTel == TelInit /\ [][Next]_vars

\* The sends of client c since the record it wrote last: all of them failed.
FailedInARow(c) == seqnum[c] - wire[c].seq

\* The connect() calls of client c since the record it wrote last, or since
\* its construction if it wrote none.
ReconnectsInARow(c) == conn[c] - (IF wire[c].seq = 0 THEN 1 ELSE wire[c].conn)

\* C11: after N failed sends in a row on one client, the client has made
\* exactly N reconnect attempts, one per failed send, and the collector has
\* got every record at most once: a record whose write failed is dropped,
\* never written again on the new connection.
C11_OneReconnectPerFailure ==
  \A c \in Clients :
    conn[c] >= 1 =>
      /\ ReconnectsInARow(c) = FailedInARow(c)
      /\ written[c] = seqnum[c] - (conn[c] - 1)
      /\ written[c] <= seqnum[c]

\* Two write failures in a row on a client that had written a record, both
\* reconnects successful.
C11_Witness ==
  /\ ~exited
  /\ IsSend(last) /\ last.out = "socket.error"
  /\ FailedInARow(SentOn(last)) = 2
  /\ wire[SentOn(last)].seq >= 1
  /\ conn[SentOn(last)] = 3

\* C12: on one connection the sequence numbers of the records written one
\* after the other strictly increase, whichever parts send them.
C12_SeqIncreasesPerConnection ==
  [][\A c \in Clients :
       (written'[c] = written[c] + 1 /\ wire'[c].conn = wire[c].conn)
         => wire'[c].seq > wire[c].seq]_vars

\* Part 1 writes on the machine's first connection while part 0, which wrote
\* on it before, is still at work.
C12_Witness ==
  /\ last.op = "part_enters" /\ last.who = 1 /\ last.out = "ok"
  /\ pc[0] = "WORKING"
  /\ conn[SentOn(last)] = 1
  /\ wire[SentOn(last)].seq = 3

\* ------------------------------------------------------------ address pool
\* The clients that were constructed: each has the address it popped.
Made == {c \in Clients : bind_addr[c] # 0}

\* The clients setup constructs: the rail's and the machine's own, for every
\* machine of the line.
OfTheLine == {c \in Clients : c[2] < num_machines}

\* C13: addresses leave the pool only when a client is constructed, one per
\* Machine and one per Rail, 2 * num_machines in a setup that completes; the
\* pool never grows, no entry is handed to two clients, and no send or
\* reconnect takes an entry.
C13_PoolOnlyAtConstruction ==
  /\ Len(pool) <= PoolSize
  /\ last.op = "run" => Len(pool) = PoolSize /\ Made = {}
  /\ Len(pool) = PoolSize - Cardinality(Made)
  /\ \A c \in Made, d \in Made : c # d => bind_addr[c] # bind_addr[d]
  /\ \A c \in Made, i \in 1 .. Len(pool) : pool[i] # bind_addr[c]
  /\ (last.op # "run" /\ ~(last.op = "SetupInit" /\ exited)) =>
       /\ Made = OfTheLine
       /\ Len(pool) = PoolSize - 2 * num_machines

\* A client of a line of two machines has failed a send and reconnected.
C13_Witness ==
  /\ ~exited
  /\ num_machines = 2
  /\ IsSend(last) /\ last.out # "ok"
  /\ conn[SentOn(last)] = 2
  /\ Len(pool) = PoolSize - 4

\* ---------------------------------------------------------------- budget
\* The setup process is still to run or to wake up.
SetupPending ==
  \E i \in 1 .. Len(queue) : queue[i].kind \in {"init_setup", "timeout_setup"}

\* C14: setup never creates more than num_parts parts; the parts have the
\* ids 0, 1, ... in this order, one per t_inter interval, each created while
\* the count is below num_parts; at the first wake-up with the count at
\* num_parts setup ends, and no part is created after that.
C14_PartsWithinBudget ==
  /\ part_id <= num_parts
  /\ \A p \in Parts : pc[p] # "NONE" <=> p < part_id
  /\ last.op = "SetupWake" =>
       /\ last.who = part_id - 1
       /\ now = part_id * t_inter
  /\ last.op = "SetupReturn" =>
       /\ part_id = num_parts
       /\ now = (num_parts + 1) * t_inter
       /\ ~SetupPending
  /\ (~SetupPending /\ ~exited) => part_id = num_parts

\* Setup has ended after the last of several parts, which is on the line.
C14_Witness ==
  /\ ~SetupPending /\ ~exited
  /\ num_parts >= 2
  /\ part_id = num_parts
  /\ pc[num_parts - 1] \in {"WAITING_FOR_STATION", "WORKING"}

\* ------------------------------------------------------------- the route
\* What a step may do to part p: nothing, or the next stage of its route.
RouteStep(p) ==
  \/ pc'[p] = pc[p] /\ at'[p] = at[p]
  \/ /\ at'[p] = at[p]
     /\ \/ pc[p] = "NONE" /\ pc'[p] = "CREATED" /\ at[p] = 0
        \/ pc[p] = "CREATED" /\ pc'[p] = "WAITING_FOR_STATION" /\ at[p] = 0
        \/ pc[p] = "WAITING_FOR_STATION" /\ pc'[p] = "WORKING"
        \/ pc[p] = "WORKING" /\ pc'[p] = "WAITING_FOR_RAIL"
        \/ pc[p] = "WAITING_FOR_RAIL" /\ pc'[p] = "TRAVELING"
        \/ pc[p] = "TRAVELING" /\ pc'[p] = "STORED" /\ at[p] = num_machines - 1
  \/ /\ pc[p] = "TRAVELING" /\ pc'[p] = "WAITING_FOR_STATION"
     /\ at'[p] = at[p] + 1
     /\ at'[p] < num_machines

\* C15: every part visits the machines in the order 0 .. num_machines-1,
\* each exactly once, and at each machine goes through station acquisition,
\* work, rail acquisition and travel in this order; it is STORED only after
\* the travel on the last machine's rail.
C15_RouteInOrder ==
  [][\A p \in Parts :
       /\ RouteStep(p)
       /\ pc'[p] = "WORKING" => Holds(station'[at'[p]], p)
       /\ pc'[p] = "TRAVELING" =>
            Holds(station'[at'[p]], p) /\ Holds(rail'[at'[p]], p)
       /\ pc'[p] = "STORED" =>
            /\ log'[p].entered = num_machines
            /\ log'[p].transit = num_machines
            /\ Len(log'[p].work_start) = num_machines
            /\ Len(log'[p].work_end) = num_machines]_vars

\* A part has been stored at the end of a line of two machines.
C15_Witness ==
  /\ last.op = "stored"
  /\ num_machines = 2
  /\ pc[last.who] = "STORED" /\ at[last.who] = 1
  /\ log[last.who].transit = 2

\* ------------------------------------------------------ acquire, release
\* The resources of the line.
Resources ==
  {station[m] : m \in 0 .. num_machines - 1} \cup {rail[m] : m \in 0 .. num_machines - 1}

\* How many slots of R part p holds.
HeldCount(R, p) == Cardinality({i \in 1 .. Len(R.users) : R.users[i] = p})

\* C16: every acquire is matched by exactly one release: a STORED part holds
\* no station or rail slot and waits for none, a part holds a slot at most
\* once and only at the machine it is at, and once all the parts created are
\* STORED every resource has no holder and an empty wait queue.
C16_AcquireMatchedByRelease ==
  /\ \A p \in Parts, m \in Machines :
       /\ HeldCount(station[m], p) <= 1 /\ HeldCount(rail[m], p) <= 1
       /\ (Holds(station[m], p) \/ Holds(rail[m], p)
           \/ Waits(station[m], p) \/ Waits(rail[m], p))
            => at[p] = m /\ pc[p] \notin {"NONE", "CREATED", "STORED"}
  /\ (\A p \in Parts : p < part_id => pc[p] = "STORED") =>
       \A R \in Resources : R.users = <<>> /\ R.put_queue = <<>>

\* All the parts of a run of several parts on two machines are STORED,
\* the last one having waited for a station.
C16_Witness ==
  /\ part_id = num_parts /\ num_parts >= 2 /\ num_machines = 2
  /\ num_stations = 1
  /\ \A p \in Parts : p < part_id => pc[p] = "STORED"
  /\ \A R \in Resources : R.users = <<>>

\* ------------------------------------------------------------ a scenario
\* The end-to-end scenario: two machines of one station, three parts.
Scenario ==
  [num_parts |-> 3, num_machines |-> 2, num_stations |-> 1, worktime |-> 5,
   rail_delay |-> 2, t_inter |-> 3]

ScenarioInit ==
  /\ num_parts = Scenario.num_parts
  /\ num_machines = Scenario.num_machines
  /\ num_stations = Scenario.num_stations
  /\ output_store_sz = DefaultStoreSz
  /\ t_inter = Scenario.t_inter
  /\ worktime = Scenario.worktime
  /\ fault_budget = MaxFaults
  /\ Constructed

\* Setup in the scenario: the delays it draws for the rails of the line are
\* the scenario's.
ScenarioSetupInit ==
  /\ SetupInit
  /\ ~exited' => \A m \in 0 .. num_machines - 1 : rail_delays'[m] = Scenario.rail_delay

ScenarioNext ==
  \/ ScenarioSetupInit
  \/ SetupWake
  \/ PartInit
  \/ StationGranted
  \/ WorkInit
  \/ WorkTimeout
  \/ WorkDone
  \/ RailGranted
  \/ TravelInit
  \/ TravelTimeout
  \/ TravelDone
  \/ StationReleased
  \/ RailReleased
  \/ Ended

SpecScenario == ScenarioInit /\ [][ScenarioNext]_vars

\* ------------------------------------------------------------ determinism
\* What a run shows of the simulation: the clock, the events to come, the
\* resources, the parts, the records logged and what the last event was.
Observed ==
  <<now, queue, station, rail, pc, at, part_id, level, store_queue, ticket,
    req_ticket, log, last.op, last.who, last.m>>

\* The event a step executes: its time and what it is.
Executed == <<now, last.op, last.who, last.m>>

\* C17: with the configuration and the rail delays given, the run is
\* determined: whatever step is taken from a reachable state, no other step
\* possible there executes another event, and no other step that draws the
\* same rail delays and does not end the process leaves the simulation in
\* another state.
C17_NextEventDetermined ==
  [][\A ex \in {Executed'}, obs \in {Observed'}, d \in {rail_delays'}, x \in {exited'} :
       ~ENABLED (Next /\ (\/ Executed' # ex
                          \/ ~x /\ ~exited' /\ rail_delays' = d /\ Observed' # obs))]_vars

\* Two work timeouts are due at the same time, on a line of two stations
\* whose client has failed a send and reconnected.
C17_Witness ==
  /\ ~exited /\ faults >= 1
  /\ num_stations >= 2
  /\ \E i \in 1 .. Len(queue), j \in 1 .. Len(queue) :
       /\ i < j
       /\ queue[i].t = queue[j].t
       /\ queue[i].kind = "timeout_work" /\ queue[j].kind = "timeout_work"
       /\ queue[i].who # queue[j].who

\* The parts with a "part stored as product" record.
StoredRecords == {p \in Parts : log[p].stored >= 1}

\* C18: in the scenario the run writes exactly 3 "part stored as product"
\* records, the stored record of a part comes after exactly 2 "part entered
\* machine" and 2 "part in transit" records of that part, and the second part
\* starts work at machine 0 no earlier than the first part ends work there.
C18_Scenario ==
  /\ \A p \in Parts : log[p].stored <= 1
  /\ Cardinality(StoredRecords) <= 3
  /\ (queue = <<>> /\ ~exited) => Cardinality(StoredRecords) = 3
  /\ \A p \in StoredRecords : log[p].entered = 2 /\ log[p].transit = 2
  /\ log[1].work_start # <<>> =>
       /\ log[0].work_end # <<>>
       /\ log[1].work_start[1] >= log[0].work_end[1]

\* The run of the scenario has come to its end, the second part having
\* waited for the station of machine 0.
C18_Witness ==
  /\ queue = <<>> /\ ~exited
  /\ Cardinality(StoredRecords) = 3
  /\ log[1].work_start[1] > log[0].work_end[1]
  /\ log[1].work_start[1] > 2 * t_inter

\* ------------------------------------------------------------ termination
\* Every line within the bounds, on a network that fails no send: what is
\* left open is whether the clients connect and the delays of the rails.
FairInit ==
  /\ num_parts \in 1 .. MaxParts
  /\ num_machines \in 1 .. MaxMachines
  /\ num_stations \in 1 .. MaxStations
  /\ output_store_sz \in {1, DefaultStoreSz}
  /\ t_inter = T_INTER
  /\ worktime = WORKTIME
  /\ fault_budget = 0
  /\ Constructed

\* env.run processes the queue's next event as long as there is one: a step
\* that can be taken is taken.
FairSpec == FairInit /\ [][Next]_vars /\ WF_vars(Next)

\* Every part of the budget is STORED and no event is left.
AllStored ==
  /\ queue = <<>>
  /\ part_id = num_parts
  /\ \A p \in Parts : p < num_parts => pc[p] = "STORED"

\* C19: with a finite part budget, a horizon that is not reached and no
\* fatal error, every part of the run is eventually STORED and the event
\* queue is eventually empty: holding a station while waiting for the rail
\* never deadlocks, whatever the numbers of machines and stations and the
\* rail delays.
C19_AllPartsStored == <>(exited \/ AllStored)

\* The last of several parts waits for the station of the first of two
\* machines while the part before it, holding that station, waits for the
\* rail.
C19_Witness ==
  /\ ~exited
  /\ num_machines = 2 /\ num_parts >= 2
  /\ \E p \in Parts, q \in Parts :
       /\ pc[p] = "WAITING_FOR_RAIL" /\ at[p] = 0 /\ Holds(station[0], p)
       /\ pc[q] = "WAITING_FOR_STATION" /\ at[q] = 0 /\ Waits(station[0], q)

\* ----------------------------------------------------------- no overtaking
\* The stages of the route at one machine, in their order.
StageAtMachine(s) ==
  CASE s = "WAITING_FOR_STATION" -> 1
    [] s = "WORKING" -> 2
    [] s = "WAITING_FOR_RAIL" -> 3
    [] s = "TRAVELING" -> 4

StagesPerMachine == 4

\* How far part p has come: not created, created, a stage at a machine, or
\* STORED behind the last machine.
Progress(p) ==
  CASE pc[p] = "NONE" -> 0
    [] pc[p] = "CREATED" -> 1
    [] pc[p] = "STORED" -> 2 + StagesPerMachine * num_machines
    [] OTHER -> 1 + StagesPerMachine * at[p] + StageAtMachine(pc[p])

\* C20: parts never overtake one another: of two parts the one with the
\* smaller id is never behind the other, so it starts work, starts transit
\* and leaves every machine no later, and is STORED no later; the times
\* logged for the start and the end of work at a machine are in this order
\* too.  This holds with one station and with several.
C20_NoOvertaking ==
  \A i \in Parts, j \in Parts :
    i < j =>
      /\ Progress(i) >= Progress(j)
      /\ Len(log[i].work_start) >= Len(log[j].work_start)
      /\ Len(log[i].work_end) >= Len(log[j].work_end)
      /\ \A k \in 1 .. Len(log[j].work_start) :
           log[i].work_start[k] <= log[j].work_start[k]
      /\ \A k \in 1 .. Len(log[j].work_end) :
           log[i].work_end[k] <= log[j].work_end[k]

\* Two parts are at work at the second machine at the same time, and a
\* third part is behind them.
C20_Witness ==
  /\ num_stations >= 2 /\ num_machines = 2 /\ num_parts >= 3
  /\ pc[0] = "WORKING" /\ at[0] = 1
  /\ pc[1] = "WORKING" /\ at[1] = 1
  /\ pc[2] # "NONE"

====
